---- MODULE Spec2Model ----
(***************************************************************************)
(* Keyword compilers and validators of jsonschema-rs:                      *)
(*   src/src/keywords/additional_properties.rs                             *)
(*   src/src/keywords/exclusive_minimum.rs                                 *)
(* A keyword compiler turns a keyword value (plus the sibling keywords of  *)
(* the parent schema object) into a validator; a validator answers         *)
(* is_valid (boolean) and validate (sequence of violations).               *)
(***************************************************************************)
EXTENDS Integers, Sequences, FiniteSets, TLC

(***************************************************************************)
(* Bounds of the model.                                                    *)
(***************************************************************************)
\* most properties of an instance object
MaxProps == 2
\* most keys of a `patternProperties` sibling
MaxPatterns == 2
\* most callers that share one validator
MaxCallers == 2

(***************************************************************************)
(* Options and iterators.                                                  *)
(***************************************************************************)
None == <<>>
Some(x) == <<x>>

\* error::no_error(): the empty violation sequence
no_error == <<>>
\* error::error(e): the one-element violation sequence
error(e) == <<e>>

(***************************************************************************)
(* 64-bit numbers.  A magnitude is three 22-bit limbs <<h, m, l>> standing *)
(* for h * 2^44 + m * 2^22 + l, so that u64, i64 and f64 values keep their *)
(* width.  A number is a sign, a magnitude and a count of halves (0 or 1;  *)
(* 1 only for an f64 with a fractional part).  Zero is never negative.     *)
(***************************************************************************)
Limb == 2^22
LimbMax == Limb - 1

MagLt(a, b) ==
    \/ a[1] < b[1]
    \/ a[1] = b[1] /\ a[2] < b[2]
    \/ a[1] = b[1] /\ a[2] = b[2] /\ a[3] < b[3]

Small(n) == <<0, 0, n>>
\* 2^54 - 1, 2^54, 2^54 + 1  (1u64 << 54 of the tests)
Pow54m1 == <<2^10 - 1, LimbMax, LimbMax>>
Pow54 == <<2^10, 0, 0>>
Pow54p1 == <<2^10, 0, 1>>
\* i64::MAX = 2^63 - 1, 2^63 = -i64::MIN, u64::MAX = 2^64 - 1
I64MaxMag == <<2^19 - 1, LimbMax, LimbMax>>
Pow63 == <<2^19, 0, 0>>
U64MaxMag == <<2^20 - 1, LimbMax, LimbMax>>

U64(mag) == [ty |-> "u64", neg |-> FALSE, mag |-> mag, half |-> 0]
I64(neg, mag) == [ty |-> "i64", neg |-> neg, mag |-> mag, half |-> 0]
F64(neg, mag, half) == [ty |-> "f64", neg |-> neg, mag |-> mag, half |-> half]

\* |a| < |b|, exactly
AbsLt(a, b) == MagLt(a.mag, b.mag) \/ (a.mag = b.mag /\ a.half < b.half)

\* `x as f64` on a 64-bit integer magnitude: round to nearest, ties to even,
\* on a 53-bit significand.
RoundToF64(mag) ==
    IF mag[1] < 2^9 THEN mag
    ELSE LET e == CHOOSE k \in 1..11 : 2^(8 + k) <= mag[1] /\ mag[1] < 2^(9 + k)
             q == 2^e
             r == mag[3] % q
             base == mag[3] - r
             up == 2 * r > q \/ (2 * r = q /\ (base \div q) % 2 = 1)
             l == IF up THEN base + q ELSE base
             cl == IF l = Limb THEN 1 ELSE 0
             m == mag[2] + cl
             cm == IF m = Limb THEN 1 ELSE 0
         IN  <<mag[1] + cm, IF cm = 1 THEN 0 ELSE m, IF cl = 1 THEN 0 ELSE l>>

\* `self.limit as f64`
as_f64_cast(x) ==
    IF x.ty = "f64" THEN x ELSE F64(x.neg, RoundToF64(x.mag), 0)

\* a comparison that first widens both sides to f64, losing the low bits of
\* integers of 2^53 and more
num_gt_through_f64(a, b) ==
    LET fa == as_f64_cast(a)
        fb == as_f64_cast(b)
    IN  IF fa.neg # fb.neg THEN fb.neg
        ELSE IF fa.neg THEN AbsLt(fa, fb) ELSE AbsLt(fb, fa)

\* num_cmp::NumCmp::num_gt(a, b): a > b, exact for every pair of types.
num_gt(a, b) ==
    CASE a.ty = "u64" /\ b.ty = "u64" -> MagLt(b.mag, a.mag)
      [] a.ty = "u64" /\ b.ty = "i64" -> IF b.neg THEN TRUE ELSE MagLt(b.mag, a.mag)
      [] a.ty = "i64" /\ b.ty = "u64" -> IF a.neg THEN FALSE ELSE MagLt(b.mag, a.mag)
      [] a.ty = "i64" /\ b.ty = "i64" ->
            IF a.neg # b.neg THEN b.neg
            ELSE IF a.neg THEN MagLt(a.mag, b.mag) ELSE MagLt(b.mag, a.mag)
      [] OTHER ->
            IF a.neg # b.neg THEN b.neg
            ELSE IF a.neg THEN AbsLt(a, b) ELSE AbsLt(b, a)

(***************************************************************************)
(* serde_json::Value and serde_json::Number.                               *)
(* A Value is [t, v]; a string is a sequence of one-character strings; an  *)
(* object is the sequence of its <<key, value>> entries in key order (the  *)
(* iteration order of serde_json::Map).                                    *)
(***************************************************************************)
Null == [t |-> "Null", v |-> 0]
Bool(b) == [t |-> "Bool", v |-> b]
String(s) == [t |-> "String", v |-> s]
Array(a) == [t |-> "Array", v |-> a]
Object(o) == [t |-> "Object", v |-> o]
Number(n) == [t |-> "Number", v |-> n]

\* serde_json::Number::from(u64): always PosInt
NumberFromU64(mag) == [n |-> "PosInt", neg |-> FALSE, mag |-> mag, half |-> 0]
\* serde_json::Number::from(i64): NegInt only when negative
NumberFromI64(neg, mag) ==
    [n |-> IF neg THEN "NegInt" ELSE "PosInt", neg |-> neg, mag |-> mag, half |-> 0]
\* a number parsed with a fraction or an exponent
NumberFromF64(neg, mag, half) == [n |-> "Float", neg |-> neg, mag |-> mag, half |-> half]

\* serde_json::Number::as_u64
as_u64(n) == IF n.n = "PosInt" THEN Some(U64(n.mag)) ELSE None
\* serde_json::Number::as_i64
as_i64(n) ==
    CASE n.n = "PosInt" -> IF MagLt(I64MaxMag, n.mag) THEN None ELSE Some(I64(FALSE, n.mag))
      [] n.n = "NegInt" -> Some(I64(TRUE, n.mag))
      [] OTHER -> None
\* serde_json::Number::as_f64
as_f64(n) ==
    IF n.n = "Float" THEN Some(F64(n.neg, n.mag, n.half))
    ELSE Some(F64(n.neg, RoundToF64(n.mag), 0))

\* serde_json::Value::as_u64 / as_i64 / as_f64
Value_as_u64(instance) == IF instance.t = "Number" THEN as_u64(instance.v) ELSE None
Value_as_i64(instance) == IF instance.t = "Number" THEN as_i64(instance.v) ELSE None
Value_as_f64(instance) == IF instance.t = "Number" THEN as_f64(instance.v) ELSE None

(***************************************************************************)
(* Violations (error::ValidationError).                                    *)
(***************************************************************************)
false_schema(instance) ==
    [kind |-> "false_schema", instance |-> instance, detail |-> <<>>]
exclusive_minimum(instance, limit) ==
    [kind |-> "exclusive_minimum", instance |-> instance, detail |-> <<limit>>]

(***************************************************************************)
(* exclusive_minimum.rs: the three validators generated by validate!.      *)
(***************************************************************************)
ExclusiveMinimumU64Validator(limit) ==
    [kind |-> "ExclusiveMinimumU64Validator", limit |-> <<limit>>,
     properties |-> {}, pattern |-> <<>>, validators |-> <<>>]
ExclusiveMinimumI64Validator(limit) ==
    [kind |-> "ExclusiveMinimumI64Validator", limit |-> <<limit>>,
     properties |-> {}, pattern |-> <<>>, validators |-> <<>>]
ExclusiveMinimumF64Validator(limit) ==
    [kind |-> "ExclusiveMinimumF64Validator", limit |-> <<limit>>,
     properties |-> {}, pattern |-> <<>>, validators |-> <<>>]

ExclusiveMinimum_build_validation_error(self, instance) ==
    exclusive_minimum(instance, as_f64_cast(self.limit[1]))

ExclusiveMinimum_is_valid_number(self, instance_value) ==
    num_gt(instance_value, self.limit[1])
ExclusiveMinimum_is_valid_signed_integer(self, instance_value) ==
    num_gt(instance_value, self.limit[1])
ExclusiveMinimum_is_valid_unsigned_integer(self, instance_value) ==
    num_gt(instance_value, self.limit[1])

ExclusiveMinimum_is_valid(self, instance) ==
    IF Value_as_u64(instance) # None
    THEN ExclusiveMinimum_is_valid_unsigned_integer(self, Value_as_u64(instance)[1])
    ELSE IF Value_as_i64(instance) # None
    THEN ExclusiveMinimum_is_valid_signed_integer(self, Value_as_i64(instance)[1])
    ELSE IF Value_as_f64(instance) # None
    THEN ExclusiveMinimum_is_valid_number(self, Value_as_f64(instance)[1])
    ELSE TRUE

\* Validate::validate_unsigned_integer / validate_signed_integer /
\* validate_number as the trait provides them: one violation built by
\* build_validation_error when the matching is_valid_* is false.
ExclusiveMinimum_validate_unsigned_integer(self, instance, instance_value) ==
    IF ExclusiveMinimum_is_valid_unsigned_integer(self, instance_value)
    THEN no_error
    ELSE error(ExclusiveMinimum_build_validation_error(self, instance))
ExclusiveMinimum_validate_signed_integer(self, instance, instance_value) ==
    IF ExclusiveMinimum_is_valid_signed_integer(self, instance_value)
    THEN no_error
    ELSE error(ExclusiveMinimum_build_validation_error(self, instance))
ExclusiveMinimum_validate_number(self, instance, instance_value) ==
    IF ExclusiveMinimum_is_valid_number(self, instance_value)
    THEN no_error
    ELSE error(ExclusiveMinimum_build_validation_error(self, instance))

ExclusiveMinimum_validate(self, instance) ==
    IF instance.t = "Number"
    THEN IF as_u64(instance.v) # None
         THEN ExclusiveMinimum_validate_unsigned_integer(self, instance, as_u64(instance.v)[1])
         ELSE IF as_i64(instance.v) # None
         THEN ExclusiveMinimum_validate_signed_integer(self, instance, as_i64(instance.v)[1])
         ELSE ExclusiveMinimum_validate_number(self, instance, as_f64(instance.v)[1])
    ELSE no_error

\* the two integer tests exchanged: as_i64 before as_u64
ExclusiveMinimum_compile_signed_first(schema) ==
    IF schema.t = "Number"
    THEN IF as_i64(schema.v) # None
         THEN Some([ok |-> TRUE, validator |-> <<ExclusiveMinimumI64Validator(as_i64(schema.v)[1])>>])
         ELSE IF as_u64(schema.v) # None
         THEN Some([ok |-> TRUE, validator |-> <<ExclusiveMinimumU64Validator(as_u64(schema.v)[1])>>])
         ELSE Some([ok |-> TRUE, validator |-> <<ExclusiveMinimumF64Validator(as_f64(schema.v)[1])>>])
    ELSE Some([ok |-> FALSE, validator |-> <<>>])

\* exclusive_minimum::compile
ExclusiveMinimum_compile(schema) ==
    IF schema.t = "Number"
    THEN IF as_u64(schema.v) # None
         THEN Some([ok |-> TRUE, validator |-> <<ExclusiveMinimumU64Validator(as_u64(schema.v)[1])>>])
         ELSE IF as_i64(schema.v) # None
         THEN Some([ok |-> TRUE, validator |-> <<ExclusiveMinimumI64Validator(as_i64(schema.v)[1])>>])
         ELSE Some([ok |-> TRUE, validator |-> <<ExclusiveMinimumF64Validator(as_f64(schema.v)[1])>>])
    ELSE Some([ok |-> FALSE, validator |-> <<>>])

(***************************************************************************)
(* Strings, maps and sets of keys.                                         *)
(***************************************************************************)
\* byte value of a character: String's Ord is bytewise
CharCode(c) ==
    CASE c = "(" -> 40 [] c = "^" -> 94 [] c = "a" -> 97 [] c = "b" -> 98
      [] c = "x" -> 120 [] c = "|" -> 124 [] OTHER -> 0

\* String's Ord: lexicographic on bytes
StrLt(s, t) ==
    \E i \in 1..(Len(s) + 1) :
        /\ i <= Len(t)
        /\ \A j \in 1..(i - 1) : s[j] = t[j]
        /\ (i = Len(s) + 1 \/ CharCode(s[i]) < CharCode(t[i]))

\* Map::get
Map_get(map, key) ==
    IF \E i \in 1..Len(map) : map[i][1] = key
    THEN Some(map[CHOOSE i \in 1..Len(map) : map[i][1] = key][2])
    ELSE None
\* Map::keys / Map::values, in iteration order
Map_keys(map) == [i \in 1..Len(map) |-> map[i][1]]
Map_values(map) == [i \in 1..Len(map) |-> map[i][2]]
\* BTreeSet::from_iter(properties.keys().cloned())
BTreeSet_from_keys(map) == {map[i][1] : i \in 1..Len(map)}

(***************************************************************************)
(* regex::Regex on the pattern syntax the model draws from: literals, `^`  *)
(* at the start of an alternative, `|` between alternatives, and `(`,      *)
(* which opens a group that nothing closes.                                *)
(***************************************************************************)
RECURSIVE join(_, _)
\* Vec<String>::join(sep)
join(strings, sep) ==
    IF strings = <<>> THEN <<>>
    ELSE IF Len(strings) = 1 THEN strings[1]
    ELSE strings[1] \o sep \o join(Tail(strings), sep)

\* Regex::new: Err on an unclosed group, otherwise the compiled pattern
Regex_new(pattern) ==
    IF \E i \in 1..Len(pattern) : pattern[i] = "("
    THEN [ok |-> FALSE, re |-> <<>>]
    ELSE [ok |-> TRUE, re |-> pattern]

\* the alternatives of a pattern: its maximal `|`-free segments
Alternatives(re) ==
    {SubSeq(re, p[1], p[2]) : p \in
        {q \in (1..(Len(re) + 1)) \X (0..Len(re)) :
            /\ q[2] >= q[1] - 1
            /\ (q[1] = 1 \/ re[q[1] - 1] = "|")
            /\ (q[2] = Len(re) \/ re[q[2] + 1] = "|")
            /\ \A k \in q[1]..q[2] : re[k] # "|"}}

\* does `lit` occur in `text` at position `at`
OccursAt(lit, text, at) ==
    /\ at + Len(lit) - 1 <= Len(text)
    /\ \A k \in 1..Len(lit) : text[at + k - 1] = lit[k]

AlternativeMatches(alt, text) ==
    IF alt # <<>> /\ alt[1] = "^"
    THEN OccursAt(Tail(alt), text, 1)
    ELSE \E at \in 1..(Len(text) + 1) : OccursAt(alt, text, at)

\* Regex::is_match: an unanchored search
is_match(re, text) == \E alt \in Alternatives(re) : AlternativeMatches(alt, text)

(***************************************************************************)
(* additional_properties.rs: the eight validators.                         *)
(* A validator is [kind, limit, properties, pattern, validators]; a field  *)
(* the variant does not have is empty.                                     *)
(***************************************************************************)
AdditionalPropertiesValidator(validators) ==
    [kind |-> "AdditionalPropertiesValidator", limit |-> <<>>,
     properties |-> {}, pattern |-> <<>>, validators |-> validators]
AdditionalPropertiesFalseValidator ==
    [kind |-> "AdditionalPropertiesFalseValidator", limit |-> <<>>,
     properties |-> {}, pattern |-> <<>>, validators |-> <<>>]
AdditionalPropertiesNotEmptyFalseValidator(properties) ==
    [kind |-> "AdditionalPropertiesNotEmptyFalseValidator", limit |-> <<>>,
     properties |-> properties, pattern |-> <<>>, validators |-> <<>>]
AdditionalPropertiesNotEmptyValidator(validators, properties) ==
    [kind |-> "AdditionalPropertiesNotEmptyValidator", limit |-> <<>>,
     properties |-> properties, pattern |-> <<>>, validators |-> validators]
AdditionalPropertiesWithPatternsValidator(validators, pattern) ==
    [kind |-> "AdditionalPropertiesWithPatternsValidator", limit |-> <<>>,
     properties |-> {}, pattern |-> <<pattern>>, validators |-> validators]
AdditionalPropertiesWithPatternsFalseValidator(pattern) ==
    [kind |-> "AdditionalPropertiesWithPatternsFalseValidator", limit |-> <<>>,
     properties |-> {}, pattern |-> <<pattern>>, validators |-> <<>>]
AdditionalPropertiesWithPatternsNotEmptyValidator(validators, properties, pattern) ==
    [kind |-> "AdditionalPropertiesWithPatternsNotEmptyValidator", limit |-> <<>>,
     properties |-> properties, pattern |-> <<pattern>>, validators |-> validators]
AdditionalPropertiesWithPatternsNotEmptyFalseValidator(properties, pattern) ==
    [kind |-> "AdditionalPropertiesWithPatternsNotEmptyFalseValidator", limit |-> <<>>,
     properties |-> properties, pattern |-> <<pattern>>, validators |-> <<>>]

\* Box<dyn Validate>: the two modes, dispatched on the variant
RECURSIVE is_valid(_, _)
RECURSIVE validate(_, _)

\* validators.iter().all(|validator| entries.all(|(_, value)| validator.is_valid(value)))
all_valid(validators, entries) ==
    \A i \in 1..Len(validators) :
        \A j \in 1..Len(entries) : is_valid(validators[i], entries[j][2])

RECURSIVE flat_map_values(_, _)
\* entries.flat_map(|(_, value)| validator.validate(value))
flat_map_values(validator, entries) ==
    IF entries = <<>> THEN <<>>
    ELSE validate(validator, Head(entries)[2]) \o flat_map_values(validator, Tail(entries))

RECURSIVE each_validator(_, _)
each_validator(validators, value) ==
    IF validators = <<>> THEN <<>>
    ELSE validate(Head(validators), value) \o each_validator(Tail(validators), value)

RECURSIVE flat_map_entries_first(_, _)
\* the loops exchanged: property after property, and for each property
\* validator after validator
flat_map_entries_first(validators, entries) ==
    IF entries = <<>> THEN <<>>
    ELSE each_validator(validators, Head(entries)[2])
            \o flat_map_entries_first(validators, Tail(entries))

RECURSIVE flat_map_validators(_, _)
\* validators.iter().flat_map(|validator| entries.flat_map(..)).collect()
flat_map_validators(validators, entries) ==
    IF validators = <<>> THEN <<>>
    ELSE flat_map_values(Head(validators), entries)
            \o flat_map_validators(Tail(validators), entries)

\* the last entry with a key that is not exempt, instead of the first
last_not_exempt(instance_value, exempt) ==
    IF \E i \in 1..Len(instance_value) : ~(instance_value[i][1] \in exempt)
    THEN Some(instance_value[CHOOSE i \in 1..Len(instance_value) :
                /\ ~(instance_value[i][1] \in exempt)
                /\ \A j \in (i + 1)..Len(instance_value) : instance_value[j][1] \in exempt][1])
    ELSE None

\* keys.filter_map(..).next() / keys.find(..): the first key that is not
\* in exempt (the keys the closure lets pass), if any
first_not_exempt(instance_value, exempt) ==
    IF \E i \in 1..Len(instance_value) : ~(instance_value[i][1] \in exempt)
    THEN Some(instance_value[CHOOSE i \in 1..Len(instance_value) :
                /\ ~(instance_value[i][1] \in exempt)
                /\ \A j \in 1..(i - 1) : instance_value[j][1] \in exempt][1])
    ELSE None

\* ---- AdditionalPropertiesValidator
AdditionalPropertiesValidator_is_valid_object(self, instance_value) ==
    all_valid(self.validators, instance_value)
AdditionalPropertiesValidator_validate_object(self, instance_value) ==
    flat_map_validators(self.validators, instance_value)

\* ---- AdditionalPropertiesFalseValidator
AdditionalPropertiesFalseValidator_build_validation_error(self, instance) ==
    false_schema(instance)
AdditionalPropertiesFalseValidator_is_valid_object(self, instance_value) ==
    instance_value = <<>>
\* Validate::validate_object as the trait provides it: one violation built by
\* build_validation_error from the instance when is_valid_object is false
AdditionalPropertiesFalseValidator_validate_object(self, instance, instance_value) ==
    IF AdditionalPropertiesFalseValidator_is_valid_object(self, instance_value)
    THEN no_error
    ELSE error(AdditionalPropertiesFalseValidator_build_validation_error(self, instance))

\* ---- AdditionalPropertiesNotEmptyFalseValidator
AdditionalPropertiesNotEmptyFalseValidator_is_valid_object(self, instance_value) ==
    \A i \in 1..Len(instance_value) : instance_value[i][1] \in self.properties
AdditionalPropertiesNotEmptyFalseValidator_validate_object(self, instance_value) ==
    LET exempt == {property \in BTreeSet_from_keys(instance_value) :
                        property \in self.properties}
        found == first_not_exempt(instance_value, exempt)
    IN  IF found = None THEN no_error
        ELSE error(false_schema(String(found[1])))

\* ---- AdditionalPropertiesNotEmptyValidator
AdditionalPropertiesNotEmptyValidator_is_valid_object(self, instance_value) ==
    all_valid(self.validators,
              SelectSeq(instance_value, LAMBDA e : ~(e[1] \in self.properties)))
AdditionalPropertiesNotEmptyValidator_validate_object(self, instance_value) ==
    flat_map_validators(self.validators,
              SelectSeq(instance_value, LAMBDA e : ~(e[1] \in self.properties)))

\* ---- AdditionalPropertiesWithPatternsValidator
AdditionalPropertiesWithPatternsValidator_is_valid_object(self, instance_value) ==
    all_valid(self.validators,
              SelectSeq(instance_value, LAMBDA e : ~is_match(self.pattern[1], e[1])))
AdditionalPropertiesWithPatternsValidator_validate_object(self, instance_value) ==
    flat_map_validators(self.validators,
              SelectSeq(instance_value, LAMBDA e : ~is_match(self.pattern[1], e[1])))

\* ---- AdditionalPropertiesWithPatternsFalseValidator
AdditionalPropertiesWithPatternsFalseValidator_is_valid_object(self, instance_value) ==
    \A i \in 1..Len(instance_value) : is_match(self.pattern[1], instance_value[i][1])
AdditionalPropertiesWithPatternsFalseValidator_validate_object(self, instance_value) ==
    LET exempt == {property \in BTreeSet_from_keys(instance_value) :
                        is_match(self.pattern[1], property)}
        found == first_not_exempt(instance_value, exempt)
    IN  IF found = None THEN no_error
        ELSE error(false_schema(String(found[1])))

\* ---- AdditionalPropertiesWithPatternsNotEmptyValidator
\* the filter with `||` for `&&`: a property is skipped only when it is
\* both named and matched
AdditionalPropertiesWithPatternsNotEmptyValidator_is_valid_object_either(self, instance_value) ==
    all_valid(self.validators,
              SelectSeq(instance_value, LAMBDA e :
                  ~(e[1] \in self.properties) \/ ~is_match(self.pattern[1], e[1])))
AdditionalPropertiesWithPatternsNotEmptyValidator_is_valid_object(self, instance_value) ==
    all_valid(self.validators,
              SelectSeq(instance_value, LAMBDA e :
                  ~(e[1] \in self.properties) /\ ~is_match(self.pattern[1], e[1])))
AdditionalPropertiesWithPatternsNotEmptyValidator_validate_object(self, instance_value) ==
    flat_map_validators(self.validators,
              SelectSeq(instance_value, LAMBDA e :
                  ~(e[1] \in self.properties \/ is_match(self.pattern[1], e[1]))))

\* ---- AdditionalPropertiesWithPatternsNotEmptyFalseValidator
AdditionalPropertiesWithPatternsNotEmptyFalseValidator_is_valid_object(self, instance_value) ==
    \A i \in 1..Len(instance_value) :
        instance_value[i][1] \in self.properties
            \/ is_match(self.pattern[1], instance_value[i][1])
AdditionalPropertiesWithPatternsNotEmptyFalseValidator_validate_object(self, instance_value) ==
    LET exempt == {property \in BTreeSet_from_keys(instance_value) :
                        ~(~(property \in self.properties)
                            /\ ~is_match(self.pattern[1], property))}
        found == first_not_exempt(instance_value, exempt)
    IN  IF found = None THEN no_error
        ELSE error(false_schema(String(found[1])))

\* the is_valid_object of the variant
is_valid_object(self, instance_value) ==
    CASE self.kind = "AdditionalPropertiesValidator" ->
            AdditionalPropertiesValidator_is_valid_object(self, instance_value)
      [] self.kind = "AdditionalPropertiesFalseValidator" ->
            AdditionalPropertiesFalseValidator_is_valid_object(self, instance_value)
      [] self.kind = "AdditionalPropertiesNotEmptyFalseValidator" ->
            AdditionalPropertiesNotEmptyFalseValidator_is_valid_object(self, instance_value)
      [] self.kind = "AdditionalPropertiesNotEmptyValidator" ->
            AdditionalPropertiesNotEmptyValidator_is_valid_object(self, instance_value)
      [] self.kind = "AdditionalPropertiesWithPatternsValidator" ->
            AdditionalPropertiesWithPatternsValidator_is_valid_object(self, instance_value)
      [] self.kind = "AdditionalPropertiesWithPatternsFalseValidator" ->
            AdditionalPropertiesWithPatternsFalseValidator_is_valid_object(self, instance_value)
      [] self.kind = "AdditionalPropertiesWithPatternsNotEmptyValidator" ->
            AdditionalPropertiesWithPatternsNotEmptyValidator_is_valid_object(self, instance_value)
      [] self.kind = "AdditionalPropertiesWithPatternsNotEmptyFalseValidator" ->
            AdditionalPropertiesWithPatternsNotEmptyFalseValidator_is_valid_object(self, instance_value)

\* the validate_object of the variant
validate_object(self, instance, instance_value) ==
    CASE self.kind = "AdditionalPropertiesValidator" ->
            AdditionalPropertiesValidator_validate_object(self, instance_value)
      [] self.kind = "AdditionalPropertiesFalseValidator" ->
            AdditionalPropertiesFalseValidator_validate_object(self, instance, instance_value)
      [] self.kind = "AdditionalPropertiesNotEmptyFalseValidator" ->
            AdditionalPropertiesNotEmptyFalseValidator_validate_object(self, instance_value)
      [] self.kind = "AdditionalPropertiesNotEmptyValidator" ->
            AdditionalPropertiesNotEmptyValidator_validate_object(self, instance_value)
      [] self.kind = "AdditionalPropertiesWithPatternsValidator" ->
            AdditionalPropertiesWithPatternsValidator_validate_object(self, instance_value)
      [] self.kind = "AdditionalPropertiesWithPatternsFalseValidator" ->
            AdditionalPropertiesWithPatternsFalseValidator_validate_object(self, instance_value)
      [] self.kind = "AdditionalPropertiesWithPatternsNotEmptyValidator" ->
            AdditionalPropertiesWithPatternsNotEmptyValidator_validate_object(self, instance_value)
      [] self.kind = "AdditionalPropertiesWithPatternsNotEmptyFalseValidator" ->
            AdditionalPropertiesWithPatternsNotEmptyFalseValidator_validate_object(self, instance_value)

\* the `if let Value::Object(instance_value) = instance` of every
\* additionalProperties variant's is_valid
AdditionalProperties_is_valid(self, instance) ==
    IF instance.t = "Object" THEN is_valid_object(self, instance.v) ELSE TRUE
\* without the shape test: a violation for whatever is not an object
AdditionalProperties_validate_any_shape(self, instance) ==
    IF instance.t = "Object" THEN validate_object(self, instance, instance.v)
    ELSE error(false_schema(instance))
\* ... and of its validate (for AdditionalPropertiesFalseValidator, the
\* trait's validate: validate_object for an object, and for any other shape
\* the trait's validate_<shape>, whose is_valid_<shape> is true)
AdditionalProperties_validate(self, instance) ==
    IF instance.t = "Object" THEN validate_object(self, instance, instance.v) ELSE no_error

ExclusiveMinimumKinds ==
    {"ExclusiveMinimumU64Validator", "ExclusiveMinimumI64Validator",
     "ExclusiveMinimumF64Validator"}

is_valid(validator, instance) ==
    IF validator.kind \in ExclusiveMinimumKinds
    THEN ExclusiveMinimum_is_valid(validator, instance)
    ELSE AdditionalProperties_is_valid(validator, instance)

validate(validator, instance) ==
    IF validator.kind \in ExclusiveMinimumKinds
    THEN ExclusiveMinimum_validate(validator, instance)
    ELSE AdditionalProperties_validate(validator, instance)

(***************************************************************************)
(* Compilation.  A CompilationResult is Ok(validator) or                   *)
(* Err(CompilationError::SchemaError).  The keys of a schema object are    *)
(* keyword names, written as whole strings.                                *)
(***************************************************************************)
Ok(validator) == [ok |-> TRUE, validator |-> <<validator>>]
Err == [ok |-> FALSE, validator |-> <<>>]

RECURSIVE compile(_, _)

RECURSIVE compile_keywords(_, _)
\* compilation::compile_validators on a schema object: every keyword of the
\* object, in key order, goes to its keyword compiler; a None is skipped,
\* the first error is returned, the validators are collected in order.
compile_keywords(object, rest) ==
    IF rest = <<>> THEN [ok |-> TRUE, validators |-> <<>>]
    ELSE LET keyword == Head(rest)[1]
             subschema == Head(rest)[2]
             compiled == CASE keyword = "additionalProperties" -> compile(object, subschema)
                           [] keyword = "exclusiveMinimum" -> ExclusiveMinimum_compile(subschema)
                           [] OTHER -> None
             more == compile_keywords(object, Tail(rest))
         IN  IF compiled = None THEN more
             ELSE IF ~compiled[1].ok \/ ~more.ok THEN [ok |-> FALSE, validators |-> <<>>]
             ELSE [ok |-> TRUE, validators |-> compiled[1].validator \o more.validators]

\* compilation::compile_validators: a schema that is not an object (nor a
\* boolean, which additionalProperties never hands down) is a schema error
compile_validators(schema) ==
    IF schema.t = "Object" THEN compile_keywords(schema.v, schema.v)
    ELSE [ok |-> FALSE, validators |-> <<>>]

AdditionalPropertiesValidator_compile(schema) ==
    LET validators == compile_validators(schema)
    IN  IF validators.ok THEN Ok(AdditionalPropertiesValidator(validators.validators))
        ELSE Err

AdditionalPropertiesFalseValidator_compile == Ok(AdditionalPropertiesFalseValidator)

AdditionalPropertiesNotEmptyFalseValidator_compile(properties) ==
    IF properties.t = "Object"
    THEN Ok(AdditionalPropertiesNotEmptyFalseValidator(BTreeSet_from_keys(properties.v)))
    ELSE Err

AdditionalPropertiesNotEmptyValidator_compile(schema, properties) ==
    IF properties.t = "Object"
    THEN LET validators == compile_validators(schema)
         IN  IF validators.ok
             THEN Ok(AdditionalPropertiesNotEmptyValidator(
                        validators.validators, BTreeSet_from_keys(properties.v)))
             ELSE Err
    ELSE Err

AdditionalPropertiesWithPatternsValidator_compile(schema, pattern) ==
    LET validators == compile_validators(schema)
    IN  IF validators.ok
        THEN Ok(AdditionalPropertiesWithPatternsValidator(validators.validators, pattern))
        ELSE Err

AdditionalPropertiesWithPatternsFalseValidator_compile(pattern) ==
    Ok(AdditionalPropertiesWithPatternsFalseValidator(pattern))

AdditionalPropertiesWithPatternsNotEmptyValidator_compile(schema, properties, pattern) ==
    IF properties.t = "Object"
    THEN LET validators == compile_validators(schema)
         IN  IF validators.ok
             THEN Ok(AdditionalPropertiesWithPatternsNotEmptyValidator(
                        validators.validators, BTreeSet_from_keys(properties.v), pattern))
             ELSE Err
    ELSE Err

\* a `properties` that is not an object taken as an absent one
AdditionalPropertiesWithPatternsNotEmptyFalseValidator_compile_lenient(properties, pattern) ==
    IF properties.t = "Object"
    THEN Ok(AdditionalPropertiesWithPatternsNotEmptyFalseValidator(
                BTreeSet_from_keys(properties.v), pattern))
    ELSE Ok(AdditionalPropertiesWithPatternsFalseValidator(pattern))

AdditionalPropertiesWithPatternsNotEmptyFalseValidator_compile(properties, pattern) ==
    IF properties.t = "Object"
    THEN Ok(AdditionalPropertiesWithPatternsNotEmptyFalseValidator(
                BTreeSet_from_keys(properties.v), pattern))
    ELSE Err

\* the arm with `properties` never looked at under `false`
compile_with_pattern_unnamed(schema, properties, re) ==
    IF schema.t = "Bool" /\ schema.v = TRUE THEN None
    ELSE IF schema.t = "Bool" /\ schema.v = FALSE
    THEN Some(AdditionalPropertiesWithPatternsFalseValidator_compile(re))
    ELSE IF properties # None
         THEN Some(AdditionalPropertiesWithPatternsNotEmptyValidator_compile(
                        schema, properties[1], re))
         ELSE Some(AdditionalPropertiesWithPatternsValidator_compile(schema, re))

\* compile, the arm `Ok(re) => match schema { .. }`
compile_with_pattern(schema, properties, re) ==
    IF schema.t = "Bool" /\ schema.v = TRUE THEN None
    ELSE IF schema.t = "Bool" /\ schema.v = FALSE
    THEN IF properties # None
         THEN Some(AdditionalPropertiesWithPatternsNotEmptyFalseValidator_compile(
                        properties[1], re))
         ELSE Some(AdditionalPropertiesWithPatternsFalseValidator_compile(re))
    ELSE IF properties # None
         THEN Some(AdditionalPropertiesWithPatternsNotEmptyValidator_compile(
                        schema, properties[1], re))
         ELSE Some(AdditionalPropertiesWithPatternsValidator_compile(schema, re))

\* `properties` looked at before the keyword value
compile_without_pattern_eager(schema, properties) ==
    IF properties # None /\ properties[1].t # "Object" THEN Some(Err)
    ELSE IF schema.t = "Bool" /\ schema.v = TRUE THEN None
    ELSE IF schema.t = "Bool" /\ schema.v = FALSE
    THEN IF properties # None
         THEN Some(AdditionalPropertiesNotEmptyFalseValidator_compile(properties[1]))
         ELSE Some(AdditionalPropertiesFalseValidator_compile)
    ELSE IF properties # None
         THEN Some(AdditionalPropertiesNotEmptyValidator_compile(schema, properties[1]))
         ELSE Some(AdditionalPropertiesValidator_compile(schema))

\* compile, the arm without `patternProperties`
compile_without_pattern(schema, properties) ==
    IF schema.t = "Bool" /\ schema.v = TRUE THEN None
    ELSE IF schema.t = "Bool" /\ schema.v = FALSE
    THEN IF properties # None
         THEN Some(AdditionalPropertiesNotEmptyFalseValidator_compile(properties[1]))
         ELSE Some(AdditionalPropertiesFalseValidator_compile)
    ELSE IF properties # None
         THEN Some(AdditionalPropertiesNotEmptyValidator_compile(schema, properties[1]))
         ELSE Some(AdditionalPropertiesValidator_compile(schema))

\* the union pattern: obj.keys().cloned().collect::<Vec<String>>().join("|")
union_pattern(obj) == join(Map_keys(obj), <<"|">>)

\* additional_properties::compile
compile(parent, schema) ==
    LET properties == Map_get(parent, "properties")
        patterns == Map_get(parent, "patternProperties")
    IN  IF patterns # None
        THEN IF patterns[1].t = "Object"
             THEN LET re == Regex_new(union_pattern(patterns[1].v))
                  IN  IF re.ok THEN compile_with_pattern(schema, properties, re.re)
                      ELSE Some(Err)
             ELSE Some(Err)
        ELSE compile_without_pattern(schema, properties)

(***************************************************************************)
(* The schemas and instances the model draws from.                         *)
(***************************************************************************)
\* the set S as the sequence of its strings in String order
SortedSeq(S) ==
    CHOOSE s \in [1..Cardinality(S) -> S] :
        \A i \in 1..Cardinality(S) : \A j \in (i + 1)..Cardinality(S) : StrLt(s[i], s[j])

\* the object with key set S and every value equal to value
ObjectOf(S, value) == Object([i \in 1..Cardinality(S) |-> <<SortedSeq(S)[i], value>>])

U64Literals == {Small(0), Small(1), Small(2), Pow54m1, Pow54, Pow54p1, Pow63, U64MaxMag}
I64Literals ==
    {<<TRUE, Small(1)>>, <<TRUE, Pow54>>, <<TRUE, Pow63>>,
     <<FALSE, Small(1)>>, <<FALSE, Pow54>>, <<FALSE, I64MaxMag>>}
\* 0.5, -0.5, 1.5, 2^54 and 2^54 + 4 and -2^54 written as floats
F64Literals ==
    {<<FALSE, Small(0), 1>>, <<TRUE, Small(0), 1>>, <<FALSE, Small(1), 1>>,
     <<FALSE, Pow54, 0>>, <<FALSE, <<2^10, 0, 4>>, 0>>, <<TRUE, Pow54, 0>>}

\* json!(n) for n: u64, n: i64 and n: f64
Numbers ==
    {Number(NumberFromU64(m)) : m \in U64Literals}
    \cup {Number(NumberFromI64(i[1], i[2])) : i \in I64Literals}
    \cup {Number(NumberFromF64(f[1], f[2], f[3])) : f \in F64Literals}

Zero == Number(NumberFromU64(Small(0)))
One == Number(NumberFromU64(Small(1)))
Two == Number(NumberFromU64(Small(2)))

Keys == {<<"a">>, <<"b">>, <<"x", "a">>}
PropertyNames == {<<"a">>, <<"b">>}
Patterns == {<<"^", "x">>, <<"b">>, <<"(">>}

\* values of the properties of an instance object
PropertyValues == {Zero, Two, String(<<"a">>), ObjectOf({<<"a">>, <<"b">>}, Zero)}

Objects ==
    UNION {{Object([i \in 1..Cardinality(S) |-> <<SortedSeq(S)[i], f[SortedSeq(S)[i]]>>]) :
                f \in [S -> PropertyValues]} :
           S \in {T \in SUBSET Keys : Cardinality(T) <= MaxProps}}

NonObjects == {Null, Bool(TRUE), String(<<"a">>), Array(<<Zero>>)} \cup Numbers

Instances == Objects \cup NonObjects

\* the value of a `properties` sibling: absent, not an object, an object
PropertiesSiblings ==
    {None, Some(Null)} \cup {Some(ObjectOf(S, Object(<<>>))) : S \in SUBSET PropertyNames}
\* the value of a `patternProperties` sibling
PatternPropertiesSiblings ==
    {None, Some(Null)}
    \cup {Some(ObjectOf(S, Object(<<>>))) :
            S \in {T \in SUBSET Patterns : Cardinality(T) <= MaxPatterns}}

ExclusiveMinimumOne == <<"exclusiveMinimum", One>>
\* the value of `additionalProperties`: true, false, subordinate schemas
\* (empty, one keyword, two keywords, nested, with a malformed keyword) and
\* a value that is no schema
AdditionalPropertiesValues ==
    {Bool(TRUE), Bool(FALSE), Two,
     Object(<<>>),
     Object(<<ExclusiveMinimumOne>>),
     Object(<< <<"exclusiveMinimum", String(<<"a">>)>> >>),
     Object(<< <<"additionalProperties", Object(<<ExclusiveMinimumOne>>)>> >>),
     Object(<< <<"additionalProperties", Bool(FALSE)>>, ExclusiveMinimumOne >>)}

\* the schema object: its keys in key order
ParentOf(schema, patterns, properties) ==
    << <<"additionalProperties", schema>> >>
    \o (IF patterns = None THEN <<>> ELSE << <<"patternProperties", patterns[1]>> >>)
    \o (IF properties = None THEN <<>> ELSE << <<"properties", properties[1]>> >>)

AdditionalPropertiesParents ==
    {ParentOf(s, pp, p) : s \in AdditionalPropertiesValues,
                          pp \in PatternPropertiesSiblings, p \in PropertiesSiblings}

ExclusiveMinimumParents ==
    {<< <<"exclusiveMinimum", limit>> >> : limit \in Numbers \cup {String(<<"a">>)}}

(***************************************************************************)
(* State: the schema object handed to a keyword compiler, what the         *)
(* compiler returned, and the last instance with the answers of the two    *)
(* modes on it; calls holds, for every caller that shares the validator,   *)
(* the call it is in.                                                      *)
(***************************************************************************)
\* the callers that share one validator
Callers == 1..MaxCallers

\* a caller that is in no call
Idle ==
    [pc |-> "idle", instance |-> Null, ret |-> None, all |-> <<>>, iter |-> <<>>,
     evaluated |-> 0, taken |-> 0]

VARIABLES parent, keyword, compiled, result, instance, verdict, errors, calls

vars == <<parent, keyword, compiled, result, instance, verdict, errors, calls>>

Init ==
    /\ parent = <<>>
    /\ keyword = "none"
    /\ compiled = FALSE
    /\ result = None
    /\ instance = Null
    /\ verdict = None
    /\ errors = None
    /\ calls = [c \in Callers |-> Idle]

\* additional_properties::compile(parent, parent["additionalProperties"], context)
CompileAdditionalProperties ==
    /\ ~compiled
    /\ \E p \in AdditionalPropertiesParents :
        /\ parent' = p
        /\ result' = compile(p, Map_get(p, "additionalProperties")[1])
    /\ keyword' = "additionalProperties"
    /\ compiled' = TRUE
    /\ UNCHANGED <<instance, verdict, errors, calls>>

\* exclusive_minimum::compile(parent, parent["exclusiveMinimum"], context)
CompileExclusiveMinimum ==
    /\ ~compiled
    /\ \E p \in ExclusiveMinimumParents :
        /\ parent' = p
        /\ result' = ExclusiveMinimum_compile(Map_get(p, "exclusiveMinimum")[1])
    /\ keyword' = "exclusiveMinimum"
    /\ compiled' = TRUE
    /\ UNCHANGED <<instance, verdict, errors, calls>>

HasValidator == compiled /\ result # None /\ result[1].ok
Validator == result[1].validator[1]

\* validator.is_valid(schema, instance)
IsValid ==
    /\ HasValidator
    /\ \E i \in Instances :
        /\ instance' = i
        /\ verdict' = Some(is_valid(Validator, i))
        /\ errors' = IF i = instance THEN errors ELSE None
    /\ UNCHANGED <<parent, keyword, compiled, result, calls>>

\* validator.validate(schema, instance), collected
Validate ==
    /\ HasValidator
    /\ \E i \in Instances :
        /\ instance' = i
        /\ errors' = Some(validate(Validator, i))
        /\ verdict' = IF i = instance THEN verdict ELSE None
    /\ UNCHANGED <<parent, keyword, compiled, result, calls>>

Next ==
    \/ CompileAdditionalProperties
    \/ CompileExclusiveMinimum
    \/ IsValid
    \/ Validate

Spec == Init /\ [][Next]_vars

(***************************************************************************)
(* Callers sharing one compiled validator.  A call is entered, returns,    *)
(* and for validate the returned ErrorIterator is then pulled from and     *)
(* dropped by the caller.  Steps of different callers interleave.          *)
(***************************************************************************)
\* the entries validate_object hands to the subordinate validators: what
\* the `filter` of the variant lets pass
checked_entries(self, instance_value) ==
    CASE self.kind = "AdditionalPropertiesValidator" -> instance_value
      [] self.kind = "AdditionalPropertiesNotEmptyValidator" ->
            SelectSeq(instance_value, LAMBDA e : ~(e[1] \in self.properties))
      [] self.kind = "AdditionalPropertiesWithPatternsValidator" ->
            SelectSeq(instance_value, LAMBDA e : ~is_match(self.pattern[1], e[1]))
      [] self.kind = "AdditionalPropertiesWithPatternsNotEmptyValidator" ->
            SelectSeq(instance_value, LAMBDA e :
                ~(e[1] \in self.properties \/ is_match(self.pattern[1], e[1])))
      [] OTHER -> <<>>

\* .collect::<Vec<_>>(): the number of `validator.validate(schema, value)`
\* the flat_map closures have run when validate returns; collect drains the
\* whole flat_map, so every validator has checked every entry that passed
collected_checks(self, instance_value) ==
    IF instance_value.t = "Object"
    THEN Len(self.validators) * Len(checked_entries(self, instance_value.v))
    ELSE 0

\* the schemas and instances of the shared validators
SharedParents ==
    {ParentOf(s, pp, p) :
        s \in {Bool(FALSE), Object(<<ExclusiveMinimumOne>>),
               Object(<< <<"additionalProperties", Bool(FALSE)>>, ExclusiveMinimumOne >>)},
        pp \in {None, Some(ObjectOf({<<"^", "x">>}, Object(<<>>)))},
        p \in {None, Some(ObjectOf({<<"a">>}, Object(<<>>)))}}
    \cup {<< <<"exclusiveMinimum", limit>> >> :
            limit \in {One, Number(NumberFromI64(TRUE, Small(1))),
                       Number(NumberFromF64(FALSE, Small(0), 1))}}

SharedInstances ==
    {Zero,
     Object(<< <<<<"a">>, Zero>>, <<<<"b">>, Zero>> >>),
     Object(<< <<<<"b">>, Zero>>, <<<<"x", "a">>, Two>> >>),
     Object(<< <<<<"b">>, ObjectOf({<<"a">>, <<"b">>}, Zero)>> >>)}

\* what the keyword compiler of the schema object returns
FreshResult(p) ==
    IF Map_get(p, "additionalProperties") # None
    THEN compile(p, Map_get(p, "additionalProperties")[1])
    ELSE ExclusiveMinimum_compile(Map_get(p, "exclusiveMinimum")[1])

\* the state after construction: a validator compiled, no call made
SharedInit ==
    /\ parent \in SharedParents
    /\ keyword = IF Map_get(parent, "additionalProperties") # None
                  THEN "additionalProperties" ELSE "exclusiveMinimum"
    /\ compiled = TRUE
    /\ result = FreshResult(parent)
    /\ instance = Null
    /\ verdict = None
    /\ errors = None
    /\ calls = [c \in Callers |-> Idle]

\* a caller enters validator.is_valid(schema, instance)
CallIsValid(c) ==
    /\ HasValidator
    /\ calls[c].pc = "idle"
    /\ \E i \in SharedInstances :
        calls' = [calls EXCEPT ![c] = [Idle EXCEPT !.pc = "is_valid", !.instance = i]]
    /\ UNCHANGED <<parent, keyword, compiled, result, instance, verdict, errors>>

\* a caller enters validator.validate(schema, instance)
CallValidate(c) ==
    /\ HasValidator
    /\ calls[c].pc = "idle"
    /\ \E i \in SharedInstances :
        calls' = [calls EXCEPT ![c] = [Idle EXCEPT !.pc = "validate", !.instance = i]]
    /\ UNCHANGED <<parent, keyword, compiled, result, instance, verdict, errors>>

\* is_valid(&self, ..) returns its bool
ReturnIsValid(c) ==
    /\ calls[c].pc = "is_valid"
    /\ calls' = [calls EXCEPT ![c].pc = "returned",
                              ![c].ret = Some(is_valid(Validator, calls[c].instance))]
    /\ UNCHANGED <<parent, keyword, compiled, result, instance, verdict, errors>>

\* a validate that takes the subordinate validators out of the validator
ReturnValidate_draining(c) ==
    /\ calls[c].pc = "validate"
    /\ calls' = [calls EXCEPT ![c].pc = "iterating",
                              ![c].all = validate(Validator, calls[c].instance),
                              ![c].iter = validate(Validator, calls[c].instance),
                              ![c].evaluated = collected_checks(Validator, calls[c].instance)]
    /\ result' = Some(Ok([Validator EXCEPT !.validators = <<>>]))
    /\ UNCHANGED <<parent, keyword, compiled, instance, verdict, errors>>

\* validate(&self, ..) returns its ErrorIterator: the violations collected
ReturnValidate(c) ==
    /\ calls[c].pc = "validate"
    /\ calls' = [calls EXCEPT ![c].pc = "iterating",
                              ![c].all = validate(Validator, calls[c].instance),
                              ![c].iter = validate(Validator, calls[c].instance),
                              ![c].evaluated = collected_checks(Validator, calls[c].instance)]
    /\ UNCHANGED <<parent, keyword, compiled, result, instance, verdict, errors>>

\* the caller pulls the next violation: Vec's IntoIter evaluates nothing
NextError(c) ==
    /\ calls[c].pc = "iterating"
    /\ calls[c].iter # <<>>
    /\ calls' = [calls EXCEPT ![c].iter = Tail(calls[c].iter),
                              ![c].taken = calls[c].taken + 1]
    /\ UNCHANGED <<parent, keyword, compiled, result, instance, verdict, errors>>

\* the caller drops the ErrorIterator with what is left in it
DropErrors(c) ==
    /\ calls[c].pc = "iterating"
    /\ calls' = [calls EXCEPT ![c].pc = "dropped", ![c].iter = <<>>]
    /\ UNCHANGED <<parent, keyword, compiled, result, instance, verdict, errors>>

\* the caller is done with the answer
Release(c) ==
    /\ calls[c].pc \in {"returned", "dropped"}
    /\ calls' = [calls EXCEPT ![c] = Idle]
    /\ UNCHANGED <<parent, keyword, compiled, result, instance, verdict, errors>>

SharedNext ==
    \E c \in Callers :
        \/ CallIsValid(c)
        \/ CallValidate(c)
        \/ ReturnIsValid(c)
        \/ ReturnValidate(c)
        \/ NextError(c)
        \/ DropErrors(c)
        \/ Release(c)

SharedSpec == SharedInit /\ [][SharedNext]_vars

(***************************************************************************)
(* Vocabulary of the properties.                                           *)
(***************************************************************************)
SubordinateKinds ==
    {"AdditionalPropertiesValidator", "AdditionalPropertiesNotEmptyValidator",
     "AdditionalPropertiesWithPatternsValidator",
     "AdditionalPropertiesWithPatternsNotEmptyValidator"}
ExemptingForbidKinds ==
    {"AdditionalPropertiesNotEmptyFalseValidator",
     "AdditionalPropertiesWithPatternsFalseValidator",
     "AdditionalPropertiesWithPatternsNotEmptyFalseValidator"}
ForbidKinds == ExemptingForbidKinds \cup {"AdditionalPropertiesFalseValidator"}

\* the keyword value and the siblings of the schema object compiled
KeywordValue == Map_get(parent, keyword)[1]
PropertiesSibling == Map_get(parent, "properties")
PatternPropertiesSibling == Map_get(parent, "patternProperties")

\* both modes have answered on the current instance
BothAnswered == HasValidator /\ verdict # None /\ errors # None

\* the key is exempt for the validator: in its named set or matched by its pattern
ExemptFor(validator, key) ==
    \/ key \in validator.properties
    \/ validator.pattern # <<>> /\ is_match(validator.pattern[1], key)

\* l < n as real numbers (sign, magnitude, halves)
MathLt(l, n) ==
    \/ l.neg /\ ~n.neg
    \/ ~l.neg /\ ~n.neg /\ AbsLt(l, n)
    \/ l.neg /\ n.neg /\ AbsLt(n, l)

IsInteger(value) == value.t = "Number" /\ value.v.n \in {"PosInt", "NegInt"}

\* C1: Boolean/detail agreement: on every instance, is_valid is true exactly
\* when validate yields no violation, for every validator either compiler
\* produces.
C1_BooleanDetailAgreement ==
    BothAnswered => (verdict[1] <=> errors[1] = <<>>)

C1_Witness ==
    /\ BothAnswered
    /\ Validator.kind = "AdditionalPropertiesWithPatternsNotEmptyValidator"
    /\ verdict[1] = FALSE
    /\ Len(errors[1]) >= 1
    /\ \E i \in 1..Len(instance.v) : instance.v[i][1] \in Validator.properties

\* C2: Shape vacuity: an additionalProperties validator answers true / no
\* violation on every instance that is not an object, an exclusiveMinimum
\* validator on every instance that is not a number.
C2_ShapeVacuity ==
    (HasValidator /\
        \/ keyword = "additionalProperties" /\ instance.t # "Object"
        \/ keyword = "exclusiveMinimum" /\ instance.t # "Number")
    => /\ verdict # None => verdict[1] = TRUE
       /\ errors # None => errors[1] = <<>>

C2_Witness ==
    /\ BothAnswered
    /\ Validator.kind = "AdditionalPropertiesNotEmptyValidator"
    /\ Validator.validators # <<>>
    /\ instance = Zero
    /\ verdict[1] = TRUE
    /\ errors[1] = <<>>

\* the key set of a sibling that is an object
SiblingKeys(sibling) == BTreeSet_from_keys(sibling[1].v)
IsObjectSibling(sibling) == sibling # None /\ sibling[1].t = "Object"

\* p2 has the same additionalProperties value as p1 and `properties` and
\* `patternProperties` objects whose key sets include those of p1
Widens(p1, p2) ==
    /\ Map_get(p2, "additionalProperties") = Map_get(p1, "additionalProperties")
    /\ IsObjectSibling(Map_get(p1, "properties"))
    /\ IsObjectSibling(Map_get(p2, "properties"))
    /\ IsObjectSibling(Map_get(p1, "patternProperties"))
    /\ IsObjectSibling(Map_get(p2, "patternProperties"))
    /\ SiblingKeys(Map_get(p1, "properties")) \subseteq SiblingKeys(Map_get(p2, "properties"))
    /\ SiblingKeys(Map_get(p1, "patternProperties"))
            \subseteq SiblingKeys(Map_get(p2, "patternProperties"))

CompiledFrom(p) == compile(p, Map_get(p, "additionalProperties")[1])

\* C3: Exemption monotonicity: a key that causes no violation keeps causing
\* none when `properties` gains keys or `patternProperties` gains patterns,
\* the additionalProperties value being the same.
C3_ExemptionMonotonicity ==
    (/\ BothAnswered
     /\ keyword = "additionalProperties"
     /\ instance.t = "Object"
     /\ Len(instance.v) = 1
     /\ errors[1] = <<>>)
    => \A p2 \in AdditionalPropertiesParents :
        (Widens(parent, p2) /\ CompiledFrom(p2) # None /\ CompiledFrom(p2)[1].ok)
        => validate(CompiledFrom(p2)[1].validator[1], instance) = <<>>

\* C4: Exact integer comparison: with an integer limit L and an integer
\* instance N, is_valid is N > L on the integers and validate yields exactly
\* one exclusive_minimum violation when N <= L and none otherwise, whether L
\* and N were written unsigned or signed; a u64 validator and an i64
\* validator holding the same limit answer alike.
C4_ExactIntegerComparison ==
    (/\ HasValidator
     /\ keyword = "exclusiveMinimum"
     /\ IsInteger(KeywordValue)
     /\ IsInteger(instance))
    => /\ Validator.kind \in {"ExclusiveMinimumU64Validator", "ExclusiveMinimumI64Validator"}
       /\ verdict # None => (verdict[1] <=> MathLt(KeywordValue.v, instance.v))
       /\ errors # None =>
            IF MathLt(KeywordValue.v, instance.v) THEN errors[1] = <<>>
            ELSE /\ Len(errors[1]) = 1
                 /\ errors[1][1].kind = "exclusive_minimum"
                 /\ errors[1][1].instance = instance
       /\ (~KeywordValue.v.neg /\ ~MagLt(I64MaxMag, KeywordValue.v.mag)) =>
            LET asU64 == ExclusiveMinimumU64Validator(U64(KeywordValue.v.mag))
                asI64 == ExclusiveMinimumI64Validator(I64(FALSE, KeywordValue.v.mag))
            IN  /\ is_valid(asI64, instance) = is_valid(asU64, instance)
                /\ Len(validate(asI64, instance)) = Len(validate(asU64, instance))

C4_Witness ==
    /\ BothAnswered
    /\ KeywordValue = Number(NumberFromI64(FALSE, Pow54))
    /\ instance = Number(NumberFromU64(Pow54p1))
    /\ verdict[1] = TRUE
    /\ errors[1] = <<>>

\* C5: every violation a forbid variant reports on an object is a
\* false_schema violation whose offending value is the string of a key of
\* the instance that is not exempt, never the instance itself.
C5_ForbidViolationNamesKey ==
    (/\ HasValidator
     /\ Validator.kind \in ForbidKinds
     /\ instance.t = "Object"
     /\ errors # None)
    => \A n \in 1..Len(errors[1]) :
        /\ errors[1][n].kind = "false_schema"
        /\ errors[1][n].instance.t = "String"
        /\ \E i \in 1..Len(instance.v) :
            /\ instance.v[i][1] = errors[1][n].instance.v
            /\ ~ExemptFor(Validator, instance.v[i][1])

\* the indexes of the entries of the instance whose key is not exempt
NotExempt == {i \in 1..Len(instance.v) : ~ExemptFor(Validator, instance.v[i][1])}
FirstNotExempt == CHOOSE i \in NotExempt : \A j \in NotExempt : i <= j

\* C6: a forbid variant with exemptions yields exactly one violation, naming
\* the first key in iteration order that is not exempt, when there is such a
\* key, and none when every key is exempt.
C6_ForbidReportsFirstKey ==
    (/\ HasValidator
     /\ Validator.kind \in ExemptingForbidKinds
     /\ instance.t = "Object"
     /\ errors # None)
    => IF NotExempt = {} THEN errors[1] = <<>>
       ELSE errors[1] = <<false_schema(String(instance.v[FirstNotExempt][1]))>>

C6_Witness ==
    /\ HasValidator
    /\ Validator.kind = "AdditionalPropertiesWithPatternsNotEmptyFalseValidator"
    /\ instance.t = "Object"
    /\ errors # None
    /\ Cardinality(NotExempt) = 2
    /\ Len(errors[1]) = 1

RECURSIVE ViolationsOf(_, _, _)
\* the violations of the validator on the values of entries[j], j in ix, in
\* increasing j
ViolationsOf(validator, entries, ix) ==
    IF ix = {} THEN <<>>
    ELSE LET j == CHOOSE k \in ix : \A m \in ix : m <= k
         IN  ViolationsOf(validator, entries, ix \ {j}) \o validate(validator, entries[j][2])

RECURSIVE ConcatenatedViolations(_, _, _, _)
\* the violations of validators[1..n], validator after validator
ConcatenatedViolations(validators, n, entries, ix) ==
    IF n = 0 THEN <<>>
    ELSE ConcatenatedViolations(validators, n - 1, entries, ix)
            \o ViolationsOf(validators[n], entries, ix)

\* C7: a subordinate-schema variant yields, validator after validator in
\* aggregate order and, for each validator, property after property in
\* iteration order, every violation of the validator on the value of every
\* property that is not exempt, and nothing else.
C7_SubordinateReportsAll ==
    (/\ HasValidator
     /\ Validator.kind \in SubordinateKinds
     /\ instance.t = "Object"
     /\ errors # None)
    => errors[1] = ConcatenatedViolations(Validator.validators,
                        Len(Validator.validators), instance.v, NotExempt)

C7_Witness ==
    /\ HasValidator
    /\ Validator.kind \in SubordinateKinds
    /\ Len(Validator.validators) = 2
    /\ instance.t = "Object"
    /\ errors # None
    /\ Len(errors[1]) = 2
    /\ instance.v[1][2] = Zero
    /\ errors[1][1].kind = "false_schema"
    /\ errors[1][2].kind = "exclusive_minimum"

\* the key matches at least one of the patterns, each compiled by itself
MatchesSome(patterns, key) ==
    \E p \in patterns : Regex_new(p).ok /\ is_match(Regex_new(p).re, key)

\* C8: a key is pattern-exempt exactly when it matches at least one key of
\* `patternProperties`: the pattern-exempt forbid variant accepts an object
\* exactly when every key of it matches one of the patterns.
C8_PatternExemptionIsUnion ==
    (/\ HasValidator
     /\ Validator.kind = "AdditionalPropertiesWithPatternsFalseValidator"
     /\ instance.t = "Object"
     /\ verdict # None)
    => (verdict[1] <=>
            \A i \in 1..Len(instance.v) :
                MatchesSome(SiblingKeys(PatternPropertiesSibling), instance.v[i][1]))

IsTrue(value) == value.t = "Bool" /\ value.v = TRUE

\* `patternProperties` is present and not an object, or its keys joined do
\* not compile
PatternPropertiesMalformed ==
    /\ PatternPropertiesSibling # None
    /\ \/ PatternPropertiesSibling[1].t # "Object"
       \/ ~Regex_new(union_pattern(PatternPropertiesSibling[1].v)).ok
\* `properties` is present and not an object
PropertiesMalformed ==
    PropertiesSibling # None /\ PropertiesSibling[1].t # "Object"

\* C9 as stated: additionalProperties: true compiles to None whatever the
\* siblings are.
C9_TrueIsNone ==
    (compiled /\ keyword = "additionalProperties" /\ IsTrue(KeywordValue))
    => result = None

\* C9 as amended: additionalProperties: true compiles to None whenever
\* `patternProperties` is absent or well-formed, whatever `properties` is,
\* and to Some(Err(SchemaError)) when `patternProperties` is malformed.
C9_TrueIsNoneUnlessPatternsMalformed ==
    (compiled /\ keyword = "additionalProperties" /\ IsTrue(KeywordValue))
    => IF PatternPropertiesMalformed THEN result = Some(Err) ELSE result = None

C9_Witness ==
    /\ compiled
    /\ keyword = "additionalProperties"
    /\ IsTrue(KeywordValue)
    /\ PatternPropertiesSibling # None
    /\ ~PatternPropertiesMalformed
    /\ PropertiesMalformed
    /\ result = None

\* C10 as stated: a malformed `patternProperties` or `properties` sibling
\* makes the compiler return Some(Err(SchemaError)).
C10_MalformedSiblingIsError ==
    (compiled /\ keyword = "additionalProperties"
        /\ (PatternPropertiesMalformed \/ PropertiesMalformed))
    => result = Some(Err)

\* C10 as amended: a malformed `patternProperties` always makes the
\* compiler return Some(Err(SchemaError)); a malformed `properties` does so
\* when the additionalProperties value is not true, and is not looked at
\* (the compiler returns None) when the value is true and `patternProperties`
\* is absent or well-formed.  No validator is ever compiled from a malformed
\* sibling.
C10_MalformedSiblingIsErrorUnlessTrue ==
    (compiled /\ keyword = "additionalProperties"
        /\ (PatternPropertiesMalformed \/ PropertiesMalformed))
    => IF PatternPropertiesMalformed \/ ~IsTrue(KeywordValue)
       THEN result = Some(Err)
       ELSE result = None

C10_Witness ==
    /\ compiled
    /\ keyword = "additionalProperties"
    /\ KeywordValue = Bool(FALSE)
    /\ PatternPropertiesSibling # None
    /\ ~PatternPropertiesMalformed
    /\ PropertiesMalformed
    /\ result = Some(Err)

\* the value of the number is an integer of the u64 range / of the i64 range
IsIntegerInU64(n) == ~n.neg /\ n.half = 0 /\ ~MagLt(U64MaxMag, n.mag)
IsNegativeIntegerInI64(n) == n.neg /\ n.half = 0 /\ ~MagLt(Pow63, n.mag)

\* C11 as stated: the exclusiveMinimum compiler never returns None; a value
\* that is not a number gives Some(Err(SchemaError)); a number gives the u64
\* variant when its value is a non-negative integer, the i64 variant when it
\* is a negative integer, and the f64 variant only otherwise.
C11_NarrowestVariant ==
    (compiled /\ keyword = "exclusiveMinimum")
    => /\ result # None
       /\ KeywordValue.t # "Number" => result = Some(Err)
       /\ KeywordValue.t = "Number" =>
            /\ result[1].ok
            /\ Validator.kind =
                IF IsIntegerInU64(KeywordValue.v) THEN "ExclusiveMinimumU64Validator"
                ELSE IF IsNegativeIntegerInI64(KeywordValue.v)
                THEN "ExclusiveMinimumI64Validator"
                ELSE "ExclusiveMinimumF64Validator"

\* C11 as amended: the exclusiveMinimum compiler never returns None; a value
\* that is not a number gives Some(Err(SchemaError)); a number gives the
\* variant of the representation the number is stored in: u64 when stored as
\* a non-negative integer, i64 when stored as a negative integer, f64 when
\* stored as a float, also when the float has an integer value.  The limit
\* held is the value of the number.
C11_VariantOfRepresentation ==
    (compiled /\ keyword = "exclusiveMinimum")
    => /\ result # None
       /\ KeywordValue.t # "Number" => result = Some(Err)
       /\ KeywordValue.t = "Number" =>
            /\ result[1].ok
            /\ Validator.kind =
                CASE KeywordValue.v.n = "PosInt" -> "ExclusiveMinimumU64Validator"
                  [] KeywordValue.v.n = "NegInt" -> "ExclusiveMinimumI64Validator"
                  [] KeywordValue.v.n = "Float" -> "ExclusiveMinimumF64Validator"
            /\ Validator.limit[1].neg = KeywordValue.v.neg
            /\ Validator.limit[1].mag = KeywordValue.v.mag
            /\ Validator.limit[1].half = KeywordValue.v.half

C11_Witness ==
    /\ compiled
    /\ keyword = "exclusiveMinimum"
    /\ KeywordValue = Number(NumberFromF64(FALSE, Pow54, 0))
    /\ HasValidator
    /\ Validator.kind = "ExclusiveMinimumF64Validator"

RECURSIVE ChecksUntilViolation(_, _, _, _)
\* the number of subordinate checks, validator after validator and entry
\* after entry from check (i, j) on, up to and including the first that
\* yields a violation (all of them when none does)
ChecksUntilViolation(validators, entries, i, j) ==
    IF i > Len(validators) \/ entries = <<>> THEN 0
    ELSE IF validate(validators[i], entries[j][2]) # <<>> THEN 1
    ELSE IF j < Len(entries) THEN 1 + ChecksUntilViolation(validators, entries, i, j + 1)
    ELSE 1 + ChecksUntilViolation(validators, entries, i + 1, 1)

\* the entries of the object whose key is not exempt for the validator
NotExemptEntries(validator, object) ==
    SelectSeq(object, LAMBDA e : ~ExemptFor(validator, e[1]))

\* C12: the violation sequence is lazy: when a caller of a subordinate-schema
\* variant takes the first violation and drops the rest, no subordinate
\* check after the one that produced that violation has been evaluated.
C12_LazyViolations ==
    \A c \in Callers :
        (/\ calls[c].pc = "dropped"
         /\ calls[c].taken = 1
         /\ Validator.kind \in SubordinateKinds
         /\ calls[c].instance.t = "Object"
         /\ Len(NotExemptEntries(Validator, calls[c].instance.v)) > 1)
        => calls[c].evaluated <=
                ChecksUntilViolation(Validator.validators,
                    NotExemptEntries(Validator, calls[c].instance.v), 1, 1)

\* the validator a fresh compilation of the schema object gives
FreshValidator == FreshResult(parent)[1].validator[1]

IsFalse(value) == value.t = "Bool" /\ value.v = FALSE

\* the variant the decision table gives for (false or schema) x
\* (`properties` present) x (`patternProperties` present)
TableVariant(value, properties, patterns) ==
    CASE IsFalse(value) /\ properties = None /\ patterns = None ->
            "AdditionalPropertiesFalseValidator"
      [] IsFalse(value) /\ properties # None /\ patterns = None ->
            "AdditionalPropertiesNotEmptyFalseValidator"
      [] IsFalse(value) /\ properties = None /\ patterns # None ->
            "AdditionalPropertiesWithPatternsFalseValidator"
      [] IsFalse(value) /\ properties # None /\ patterns # None ->
            "AdditionalPropertiesWithPatternsNotEmptyFalseValidator"
      [] ~IsFalse(value) /\ properties = None /\ patterns = None ->
            "AdditionalPropertiesValidator"
      [] ~IsFalse(value) /\ properties # None /\ patterns = None ->
            "AdditionalPropertiesNotEmptyValidator"
      [] ~IsFalse(value) /\ properties = None /\ patterns # None ->
            "AdditionalPropertiesWithPatternsValidator"
      [] ~IsFalse(value) /\ properties # None /\ patterns # None ->
            "AdditionalPropertiesWithPatternsNotEmptyValidator"

\* the keyword was compiled with well-formed siblings and a value other
\* than true
TableApplies ==
    /\ compiled
    /\ keyword = "additionalProperties"
    /\ ~PatternPropertiesMalformed
    /\ ~PropertiesMalformed
    /\ ~IsTrue(KeywordValue)

\* the result is the variant of the table, holding the key set of
\* `properties` iff present, the union pattern iff `patternProperties` is
\* present, and the compiled subordinate validators iff the value is not false
IsTableVariant ==
    /\ result # None
    /\ result[1].ok
    /\ Validator.kind =
            TableVariant(KeywordValue, PropertiesSibling, PatternPropertiesSibling)
    /\ Validator.properties =
            IF PropertiesSibling # None THEN SiblingKeys(PropertiesSibling) ELSE {}
    /\ Validator.pattern =
            IF PatternPropertiesSibling # None
            THEN <<Regex_new(union_pattern(PatternPropertiesSibling[1].v)).re>>
            ELSE <<>>
    /\ Validator.validators =
            IF IsFalse(KeywordValue) THEN <<>>
            ELSE compile_validators(KeywordValue).validators

\* C14 as stated: for well-formed siblings and a value other than true the
\* compiler gives the variant of the decision table with exactly the state
\* of the siblings that are present.
C14_DecisionTable == TableApplies => IsTableVariant

\* C14: for well-formed siblings and a value other than true, the compiler
\* gives the variant of the decision table with exactly the state of the
\* siblings that are present when the value is false or compiles as a
\* schema, and a schema error when it does not compile.
C14_DecisionTableUnlessSubschemaFails ==
    TableApplies =>
        IF IsFalse(KeywordValue) \/ compile_validators(KeywordValue).ok
        THEN IsTableVariant
        ELSE result = Some(Err)

C14_Witness ==
    /\ TableApplies
    /\ HasValidator
    /\ Validator.kind = "AdditionalPropertiesWithPatternsNotEmptyFalseValidator"
    /\ Validator.properties = {<<"a">>, <<"b">>}
    /\ Validator.pattern # <<>>
    /\ Validator.validators = <<>>

====
